---- MODULE Spec2Model ----
(***************************************************************************)
(* The WhatsApp bridge server (server.js, both editions): the session      *)
(* state, the lifecycle callbacks of the wrapped whatsapp-web.js client,   *)
(* the reconnect timer, the WebSocket subscriber set and the broadcast.    *)
(*                                                                         *)
(* One action is one run-to-completion step of the Node.js event loop: a   *)
(* callback runs from its start to its return or to its next `await`.      *)
(* The continuation after an `await` is an action of its own.              *)
(*                                                                         *)
(* The two editions of the server (the standalone one and the add-on one)  *)
(* have the same lifecycle, subscriber and broadcast code; line numbers    *)
(* in the comments are those of the add-on edition.                        *)
(***************************************************************************)
EXTENDS Naturals, Sequences, FiniteSets

\* ---------------------------------------------------------------- bounds
\* Client instances ever constructed (the first one and the reconnects).
MaxClients == 3
\* Lifecycle signals delivered by the wrapped clients over a run.
MaxSignals == 2
\* WebSocket connections accepted over a run.
MaxConns == 1
\* REST requests received over a run.
MaxRequests == 1
\* Characters of a `to` given to chatId.
MaxLen == 3

\* ------------------------------------------------------------- constants
\* ws.readyState of an open socket, as broadcast tests it (`=== 1`).
OPEN == 1
\* The close code of a refused connection.
UNAUTHORIZED_CLOSE == 4001

API_TOKEN == "secret"

Tokens == {API_TOKEN, "wrong", "null"}

Statuses ==
  {"DISCONNECTED", "INITIALIZING", "QR_READY", "AUTHENTICATED", "READY",
   "AUTH_FAILURE"}

Clients == 1..MaxClients
Conns == 1..MaxConns
Reqs == 1..MaxRequests
\* The opaque tokens of the qr signal.
QrCodes == {"qrA", "qrB"}

\* `null` of currentQrDataUrl, and the value qrcode.toDataURL(qr) resolves
\* to: an image made of the token, never the token itself.
null == <<>>

toDataURL(qr) == <<"data:image/png;base64", qr>>

\* Values of the JSON body: <<type, characters>>. A string is the sequence
\* of its characters; a number is written by its digits.
undefined == <<"undefined", <<>>>>

Str(chars) == <<"string", chars>>

Num(chars) == <<"number", chars>>

\* req.body as express.json() parsed it. A handler that returns before it
\* reads req.body keeps `unread` in its record.
unread == [to |-> undefined, message |-> undefined, media_url |-> undefined,
           phone |-> undefined]

\* A request. pc is where its handler stands: "idle" (not received yet),
\* "await_<call>" (suspended at the await of that call), "done" (returned
\* after responding), "escaped" (left by an exception nobody caught).
\* authorized is what auth made of the Authorization header; body and
\* chatId are what the handler holds of the request; on and arg are the
\* instance and the argument of the call it awaits; res are the responses
\* sent, called the calls made for it. checked is history: the instance
\* waClient referred to when a media send passed `clientStatus !== "READY"`,
\* kept while the download is awaited.
NoRequest ==
  [pc |-> "idle", ep |-> "none", authorized |-> FALSE, body |-> unread,
   chatId |-> undefined, on |-> 0, arg |-> undefined, res |-> <<>>,
   called |-> <<>>, checked |-> 0]

VARIABLES
  listening,        \* server.listen's callback has run
  clientStatus,     \* let clientStatus
  currentQrDataUrl, \* let currentQrDataUrl
  waClient,         \* let waClient: the instance it refers to, 0 for null
  created,          \* number of `new Client(...)` so far; instances 1..created
  initState,        \* per instance: the promise of initialize()
  timers,           \* pending setTimeout(createClient, 5000) callbacks
  encoding,         \* qr handlers suspended at `await qrcode.toDataURL(qr)`
  wsClients,        \* const wsClients = new Set()
  readyState,       \* per connection: ws.readyState (0 before it connects)
  handlers,         \* connections with close/error callbacks registered
  closeCode,        \* per connection: code the server closed it with, or 0
  frames,           \* per open connection: the frames sent to it, in order
  \* history variables (never read by the actions' guards or effects)
  sigCount,         \* lifecycle signals arrived so far
  lastSignal,       \* kind of the most recently arrived lifecycle signal
  lastClient,       \* instance whose callback most recently changed state
  lastQr,           \* token of the most recently arrived qr signal
  disconnects,      \* `disconnected` signals arrived
  reconnects,       \* createClient calls made by the reconnect timer
  statusAtConnect,  \* per open connection: clientStatus when it was accepted
  bcasts,           \* calls of broadcast
  skipped,          \* connections the last broadcast found non-open
  raised,           \* broadcast called send on a non-open socket
  presented,        \* per connection: the token of its URL ("none" before)
  callbacksRun,     \* connections whose close or error callback has run
  \* the request gateway
  reqs,             \* per request: where its route handler stands
  \* a function of the server applied on its own
  fnArg,            \* the argument
  fnResult,         \* what it returned (NoResult before the call)
  \* message callbacks
  resolving,        \* message handlers suspended at `await msg.getContact()`
  sigLog,           \* history: the message signals arrived, by signal number
  pubLog,           \* history: the message events given to broadcast
  \* shutdown
  edition,          \* which server.js runs: "addon" or "standalone"
  shutdown,         \* where the SIGTERM handler stands ("exited": process gone)
  destroyed,        \* per instance: the promise of its destroy()
  termClient        \* the instance the SIGTERM handler found in waClient

vars ==
  <<listening, clientStatus, currentQrDataUrl, waClient, created, initState,
    timers, encoding, wsClients, readyState, handlers, closeCode, frames,
    sigCount, lastSignal, lastClient, lastQr, disconnects, reconnects,
    statusAtConnect, bcasts, skipped, raised, presented, callbacksRun, reqs,
    fnArg, fnResult, resolving, sigLog, pubLog, edition, shutdown, destroyed,
    termClient>>

sessionVars == <<clientStatus, currentQrDataUrl, waClient, created, initState>>

wsVars == <<wsClients, readyState, handlers, closeCode>>

bcastVars == <<frames, bcasts, skipped, raised>>

histVars == <<sigCount, lastSignal, lastClient, lastQr, disconnects, reconnects>>

wsHist == <<presented, callbacksRun>>

\* The message callbacks' and the shutdown handler's variables.
msgVars == <<resolving, sigLog, pubLog>>

termVars == <<edition, shutdown, destroyed, termClient>>

\* A step of the running process in which no route handler, no message
\* callback and no shutdown handler runs.
Quiet ==
  /\ shutdown # "exited"
  /\ UNCHANGED <<reqs, fnArg, fnResult, msgVars, termVars>>

\* A step of a lifecycle callback or of the reconnect timer.
LifecycleStep == Quiet /\ UNCHANGED wsHist

\* A frame {event, data}; sig and client say which signal of which instance
\* caused it (history, not sent). For the status frame of a new connection,
\* sig is the number of signals that had arrived when it connected. seq is
\* history too: the number of the broadcast call that sent the frame, and
\* for a status frame the number of broadcast calls made before it.
Frame(e, d, s, i) ==
  [event |-> e, data |-> d, sig |-> s, client |-> i, seq |-> 0]

\* The server after its module has loaded.
ServerInit ==
  /\ listening = FALSE
  /\ clientStatus = "DISCONNECTED"
  /\ currentQrDataUrl = null
  /\ waClient = 0
  /\ created = 0
  /\ initState = [i \in Clients |-> "none"]
  /\ timers = 0
  /\ encoding = {}
  /\ wsClients = {}
  /\ readyState = [c \in Conns |-> 0]
  /\ handlers = {}
  /\ closeCode = [c \in Conns |-> 0]
  /\ frames = [c \in Conns |-> <<>>]
  /\ sigCount = 0
  /\ lastSignal = "none"
  /\ lastClient = 0
  /\ lastQr = "none"
  /\ disconnects = 0
  /\ reconnects = 0
  /\ statusAtConnect = [c \in Conns |-> "none"]
  /\ bcasts = 0
  /\ skipped = {}
  /\ raised = FALSE
  /\ presented = [c \in Conns |-> "none"]
  /\ callbacksRun = {}
  /\ reqs = [r \in Reqs |-> NoRequest]
  /\ resolving = {}
  /\ sigLog = <<>>
  /\ pubLog = <<>>
  /\ shutdown = "running"
  /\ destroyed = [i \in Clients |-> "none"]
  /\ termClient = 0

NoResult == <<"none">>

Init ==
  ServerInit /\ edition = "addon" /\ fnArg = <<>> /\ fnResult = NoResult


\* ------------------------------------------------------------ broadcast
\* The frame as this call of broadcast sends it, and the status frame as
\* the connection handler sends it.
Sent(payload) == [payload EXCEPT !.seq = bcasts + 1]

StatusFrame == [Frame("status", <<clientStatus>>, sigCount, 0) EXCEPT !.seq = bcasts]

\* broadcast sending every frame twice.
broadcastTwice(payload) ==
  /\ frames' = [c \in Conns |->
                  IF c \in wsClients /\ readyState[c] = OPEN
                    THEN Append(Append(frames[c], Sent(payload)), Sent(payload))
                    ELSE frames[c]]
  /\ skipped' = {c \in wsClients : readyState[c] # OPEN}
  /\ raised' = raised
  /\ bcasts' = bcasts + 1
  /\ UNCHANGED wsVars

\* broadcast without its readyState test: send is called on every registered
\* socket.
broadcastNoGuard(payload) ==
  /\ frames' = [c \in Conns |->
                  IF c \in wsClients /\ readyState[c] = OPEN
                    THEN Append(frames[c], Sent(payload))
                    ELSE frames[c]]
  /\ skipped' = {}
  /\ raised' = (raised \/ \E c \in wsClients : readyState[c] # OPEN)
  /\ bcasts' = bcasts + 1
  /\ UNCHANGED wsVars

\* function broadcast(payload): the frame goes to every registered
\* connection whose readyState is OPEN; the others are passed over and stay
\* in the set. ws.send is never reached for a non-open socket.
broadcast(payload) ==
  /\ frames' = [c \in Conns |->
                  IF c \in wsClients /\ readyState[c] = OPEN
                    THEN Append(frames[c], Sent(payload))
                    ELSE frames[c]]
  /\ skipped' = {c \in wsClients : readyState[c] # OPEN}
  /\ raised' = raised
  /\ bcasts' = bcasts + 1
  /\ UNCHANGED wsVars

\* ----------------------------------------------------- lifecycle: client
\* function createClient(): a new instance replaces the reference in
\* waClient, its callbacks are registered, the status is set and
\* initialize() is started. The instance waClient referred to before is
\* neither destroyed nor are its callbacks removed.
createClient ==
  /\ created < MaxClients
  /\ created' = created + 1
  /\ waClient' = created + 1
  /\ initState' = [initState EXCEPT ![created + 1] = "pending"]
  /\ clientStatus' = "INITIALIZING"
  /\ lastClient' = created + 1
  /\ UNCHANGED currentQrDataUrl

\* An instance can deliver a signal once it is constructed, unless its
\* initialize() was rejected. Every constructed instance keeps its callbacks.
CanSignal(i) ==
  /\ listening
  /\ i \in 1..created
  /\ initState[i] # "rejected"
  /\ sigCount < MaxSignals

Arrived(kind, i) ==
  /\ sigCount' = sigCount + 1
  /\ lastSignal' = kind
  /\ lastClient' = i

\* server.listen(PORT, ..., () => { ...; createClient(); })
Listen ==
  /\ ~listening
  /\ listening' = TRUE
  /\ createClient
  /\ lastSignal' = "construct"
  /\ UNCHANGED <<timers, encoding, wsVars, bcastVars, sigCount, lastQr,
                 disconnects, reconnects, statusAtConnect>>
  /\ LifecycleStep

\* waClient.on("qr", async (qr) => { clientStatus = "QR_READY"; await ... })
\* up to the await: the handler is suspended with its token.
OnQr(i, qr) ==
  /\ CanSignal(i)
  /\ clientStatus' = "QR_READY"
  /\ encoding' = encoding \cup {[qr |-> qr, sig |-> sigCount + 1, client |-> i]}
  /\ Arrived("qr", i)
  /\ lastQr' = qr
  /\ UNCHANGED <<listening, currentQrDataUrl, waClient, created, initState,
                 timers, wsVars, bcastVars, disconnects, reconnects,
                 statusAtConnect>>
  /\ LifecycleStep

\* The qr handler with its status assignment placed after the await.
QrEncodedSetsStatus(p) ==
  /\ p \in encoding
  /\ encoding' = encoding \ {p}
  /\ clientStatus' = "QR_READY"
  /\ currentQrDataUrl' = toDataURL(p.qr)
  /\ broadcast(Frame("qr", toDataURL(p.qr), p.sig, p.client))
  /\ lastClient' = p.client
  /\ UNCHANGED <<listening, waClient, created, initState, timers, sigCount,
                 lastSignal, lastQr, disconnects, reconnects, statusAtConnect>>
  /\ LifecycleStep

\* The rest of the qr handler, when toDataURL has resolved: store the image
\* and broadcast it. Pending encodings resolve in any order.
QrEncoded(p) ==
  /\ p \in encoding
  /\ encoding' = encoding \ {p}
  /\ currentQrDataUrl' = toDataURL(p.qr)
  /\ broadcast(Frame("qr", toDataURL(p.qr), p.sig, p.client))
  /\ lastClient' = p.client
  /\ UNCHANGED <<listening, clientStatus, waClient, created, initState, timers,
                 sigCount, lastSignal, lastQr, disconnects, reconnects,
                 statusAtConnect>>
  /\ LifecycleStep

\* waClient.on("authenticated", () => { ... })
OnAuthenticated(i) ==
  /\ CanSignal(i)
  /\ clientStatus' = "AUTHENTICATED"
  /\ currentQrDataUrl' = null
  /\ broadcast(Frame("authenticated", <<>>, sigCount + 1, i))
  /\ Arrived("authenticated", i)
  /\ UNCHANGED <<listening, waClient, created, initState, timers, encoding,
                 lastQr, disconnects, reconnects, statusAtConnect>>
  /\ LifecycleStep

\* waClient.on("auth_failure", (msg) => { ... })
OnAuthFailure(i) ==
  /\ CanSignal(i)
  /\ clientStatus' = "AUTH_FAILURE"
  /\ broadcast(Frame("auth_failure", <<>>, sigCount + 1, i))
  /\ Arrived("auth_failure", i)
  /\ UNCHANGED <<listening, currentQrDataUrl, waClient, created, initState,
                 timers, encoding, lastQr, disconnects, reconnects,
                 statusAtConnect>>
  /\ LifecycleStep

\* waClient.on("ready", () => { ... })
OnReady(i) ==
  /\ CanSignal(i)
  /\ clientStatus' = "READY"
  /\ broadcast(Frame("ready", <<>>, sigCount + 1, i))
  /\ Arrived("ready", i)
  /\ UNCHANGED <<listening, currentQrDataUrl, waClient, created, initState,
                 timers, encoding, lastQr, disconnects, reconnects,
                 statusAtConnect>>
  /\ LifecycleStep

\* The disconnected handler arming a repeating timer: two callbacks are due.
OnDisconnectedTwoTimers(i) ==
  /\ CanSignal(i)
  /\ created + timers + 1 < MaxClients
  /\ clientStatus' = "DISCONNECTED"
  /\ broadcast(Frame("disconnected", <<>>, sigCount + 1, i))
  /\ timers' = timers + 2
  /\ Arrived("disconnected", i)
  /\ disconnects' = disconnects + 1
  /\ UNCHANGED <<listening, currentQrDataUrl, waClient, created, initState,
                 encoding, lastQr, reconnects, statusAtConnect>>
  /\ LifecycleStep

\* waClient.on("disconnected", (reason) => { ...; setTimeout(..., 5000) })
\* Every timer it sets will construct an instance: the signal is delivered
\* only while the instances constructed and due stay within MaxClients.
OnDisconnected(i) ==
  /\ CanSignal(i)
  /\ created + timers < MaxClients
  /\ clientStatus' = "DISCONNECTED"
  /\ broadcast(Frame("disconnected", <<>>, sigCount + 1, i))
  /\ timers' = timers + 1
  /\ Arrived("disconnected", i)
  /\ disconnects' = disconnects + 1
  /\ UNCHANGED <<listening, currentQrDataUrl, waClient, created, initState,
                 encoding, lastQr, reconnects, statusAtConnect>>
  /\ LifecycleStep

\* setTimeout(() => { createClient(); }, 5000): one pending timer fires.
TimerFire ==
  /\ timers > 0
  /\ timers' = timers - 1
  /\ createClient
  /\ lastSignal' = "timer"
  /\ reconnects' = reconnects + 1
  /\ UNCHANGED <<listening, encoding, wsVars, bcastVars, sigCount, lastQr,
                 disconnects, statusAtConnect>>
  /\ LifecycleStep

\* waClient.initialize().catch((err) => { clientStatus = "DISCONNECTED"; })
\* The promise of initialize() is rejected, at most once per instance; no
\* callback of the server settles it, so this may happen at any time. (In
\* the runs where it never happens the promise resolved or stays pending.)
InitFail(i) ==
  /\ i \in 1..created
  /\ initState[i] = "pending"
  /\ sigCount < MaxSignals
  /\ initState' = [initState EXCEPT ![i] = "rejected"]
  /\ clientStatus' = "DISCONNECTED"
  /\ Arrived("init_failed", i)
  /\ UNCHANGED <<listening, currentQrDataUrl, waClient, created, timers,
                 encoding, wsVars, bcastVars, lastQr, disconnects, reconnects,
                 statusAtConnect>>
  /\ LifecycleStep

\* ------------------------------------------------- WebSocket subscribers
\* frames[c] and statusAtConnect[c] observe a socket while it is OPEN: they
\* are dropped when it leaves OPEN, after which nothing is sent to it (see
\* broadcast and raised).
Forget(c) ==
  /\ frames' = [frames EXCEPT ![c] = <<>>]
  /\ statusAtConnect' = [statusAtConnect EXCEPT ![c] = "none"]

\* The connection handler registering the socket without sending it the
\* status.
WsConnectionNoStatus(c, token) ==
  /\ listening
  /\ readyState[c] = 0
  /\ \A d \in Conns : d < c => readyState[d] # 0
  /\ IF token # API_TOKEN
       THEN /\ closeCode' = [closeCode EXCEPT ![c] = UNAUTHORIZED_CLOSE]
            /\ readyState' = [readyState EXCEPT ![c] = 2]
            /\ UNCHANGED <<wsClients, handlers, frames, statusAtConnect>>
       ELSE /\ wsClients' = wsClients \cup {c}
            /\ readyState' = [readyState EXCEPT ![c] = OPEN]
            /\ handlers' = handlers \cup {c}
            /\ statusAtConnect' = [statusAtConnect EXCEPT ![c] = clientStatus]
            /\ UNCHANGED <<closeCode, frames>>
  /\ UNCHANGED <<listening, sessionVars, timers, encoding, histVars, bcasts,
                 skipped, raised>>
  /\ presented' = [presented EXCEPT ![c] = token]
  /\ Quiet
  /\ UNCHANGED callbacksRun

\* The connection handler registering the socket before it tests the token.
WsConnectionAddsFirst(c, token) ==
  /\ listening
  /\ readyState[c] = 0
  /\ \A d \in Conns : d < c => readyState[d] # 0
  /\ wsClients' = wsClients \cup {c}
  /\ IF token # API_TOKEN
       THEN /\ closeCode' = [closeCode EXCEPT ![c] = UNAUTHORIZED_CLOSE]
            /\ readyState' = [readyState EXCEPT ![c] = 2]
            /\ UNCHANGED <<handlers, frames, statusAtConnect>>
       ELSE /\ readyState' = [readyState EXCEPT ![c] = OPEN]
            /\ frames' = [frames EXCEPT ![c] =
                 Append(@, StatusFrame)]
            /\ handlers' = handlers \cup {c}
            /\ statusAtConnect' = [statusAtConnect EXCEPT ![c] = clientStatus]
            /\ UNCHANGED closeCode
  /\ UNCHANGED <<listening, sessionVars, timers, encoding, histVars, bcasts,
                 skipped, raised>>
  /\ presented' = [presented EXCEPT ![c] = token]
  /\ Quiet
  /\ UNCHANGED callbacksRun

\* wss.on("connection", (ws, req) => { ... }), while the server accepts
\* connections (until server.close()): refused with 4001 unless the
\* token matches; otherwise registered and sent the current status at once.
WsConnection(c, token) ==
  /\ listening
  /\ shutdown \in {"running", "destroying"}
  /\ readyState[c] = 0
  /\ \A d \in Conns : d < c => readyState[d] # 0
  /\ IF token # API_TOKEN
       THEN /\ closeCode' = [closeCode EXCEPT ![c] = UNAUTHORIZED_CLOSE]
            /\ readyState' = [readyState EXCEPT ![c] = 2]
            /\ UNCHANGED <<wsClients, handlers, frames, statusAtConnect>>
       ELSE /\ wsClients' = wsClients \cup {c}
            /\ readyState' = [readyState EXCEPT ![c] = OPEN]
            /\ frames' = [frames EXCEPT ![c] =
                 Append(@, StatusFrame)]
            /\ handlers' = handlers \cup {c}
            /\ statusAtConnect' = [statusAtConnect EXCEPT ![c] = clientStatus]
            /\ UNCHANGED closeCode
  /\ UNCHANGED <<listening, sessionVars, timers, encoding, histVars, bcasts,
                 skipped, raised>>
  /\ presented' = [presented EXCEPT ![c] = token]
  /\ Quiet
  /\ UNCHANGED callbacksRun

\* The closing handshake of an open socket starts (either side): the socket
\* is CLOSING (2) until its close event. No callback of the server runs.
WsClosing(c) ==
  /\ readyState[c] = OPEN
  /\ readyState' = [readyState EXCEPT ![c] = 2]
  /\ Forget(c)
  /\ UNCHANGED <<listening, sessionVars, timers, encoding, wsClients, handlers,
                 closeCode, bcasts, skipped, raised, histVars>>
  /\ LifecycleStep

\* ws.on("error", () => { wsClients.delete(ws); }): ws emits error on an
\* open or closing socket and closes it; the close event follows later.
WsError(c) ==
  /\ readyState[c] \in {OPEN, 2}
  /\ c \in handlers
  /\ readyState' = [readyState EXCEPT ![c] = 2]
  /\ wsClients' = wsClients \ {c}
  /\ Forget(c)
  /\ UNCHANGED <<listening, sessionVars, timers, encoding, handlers, closeCode,
                 bcasts, skipped, raised, histVars>>
  /\ callbacksRun' = callbacksRun \cup {c}
  /\ Quiet
  /\ UNCHANGED presented

\* The close callback toggling the membership instead of deleting: a second
\* removal puts the connection back.
WsCloseToggles(c) ==
  /\ readyState[c] \in {OPEN, 2}
  /\ c \in handlers
  /\ readyState' = [readyState EXCEPT ![c] = 3]
  /\ wsClients' = IF c \in wsClients THEN wsClients \ {c} ELSE wsClients \cup {c}
  /\ Forget(c)
  /\ UNCHANGED <<listening, sessionVars, timers, encoding, handlers, closeCode,
                 bcasts, skipped, raised, histVars>>
  /\ callbacksRun' = callbacksRun \cup {c}
  /\ Quiet
  /\ UNCHANGED presented

\* ws.on("close", () => { wsClients.delete(ws); }): the socket is CLOSED (3).
\* (A refused connection has no callback registered: its close runs no code
\* of the server.)
WsClose(c) ==
  /\ readyState[c] \in {OPEN, 2}
  /\ c \in handlers
  /\ readyState' = [readyState EXCEPT ![c] = 3]
  /\ wsClients' = wsClients \ {c}
  /\ Forget(c)
  /\ UNCHANGED <<listening, sessionVars, timers, encoding, handlers, closeCode,
                 bcasts, skipped, raised, histVars>>
  /\ callbacksRun' = callbacksRun \cup {c}
  /\ Quiet
  /\ UNCHANGED presented

\* ---------------------------------------------------- message callbacks
\* Chat identifiers as <<user, "@", server>>.
User == <<"1", "@", "c.us">>
Group == <<"9", "@", "g.us">>
Me == <<"5", "@", "c.us">>

\* The messages the client reports: received from a contact or in a group,
\* and sent by this account to a contact or to a group.
Messages ==
  {[id |-> "m1", from |-> User, to |-> Me, fromMe |-> FALSE],
   [id |-> "m2", from |-> Group, to |-> Me, fromMe |-> FALSE],
   [id |-> "m3", from |-> Me, to |-> User, fromMe |-> TRUE],
   [id |-> "m4", from |-> Me, to |-> Group, fromMe |-> TRUE]}

\* The ack levels of message_ack (delivered, read).
Acks == {"2", "3"}

\* s.endsWith(suffix)
endsWith(str, suffix) ==
  /\ Len(str) >= Len(suffix)
  /\ SubSeq(str, Len(str) - Len(suffix) + 1, Len(str)) = suffix

\* The object buildMessagePayload returns, with contact_name as resolved
\* (body, type, timestamp, has_media and has_quoted are copied from msg and
\* left out here).
buildMessagePayload(msg, contact_name) ==
  [id |-> msg.id, from |-> msg.from, to |-> msg.to, from_me |-> msg.fromMe,
   is_group |-> endsWith(msg.from, <<"@", "g.us">>),
   contact_name |-> contact_name]

\* What a message callback leaves alone besides the broadcast.
msgFrame ==
  <<listening, sessionVars, timers, encoding, lastQr, disconnects, reconnects,
    statusAtConnect, wsHist, reqs, fnArg, fnResult, termVars>>

\* The callback is suspended in buildMessagePayload at
\* `await msg.getContact()`, to broadcast `event` when it resumes.
Suspend(event, msg, i) ==
  resolving' = resolving \cup
    {[event |-> event, msg |-> msg, sig |-> sigCount + 1, client |-> i]}

\* waClient.on("message", async (msg) => { ... }), to its await.
OnMessage(i, msg) ==
  /\ CanSignal(i)
  /\ shutdown # "exited"
  /\ Suspend("message", msg, i)
  /\ Arrived("message", i)
  /\ sigLog' = Append(sigLog, [kind |-> "message", fromMe |-> msg.fromMe])
  /\ UNCHANGED <<msgFrame, wsVars, bcastVars, pubLog>>

\* The message_create callback without its test of msg.fromMe.
OnMessageCreateAll(i, msg) ==
  /\ CanSignal(i)
  /\ shutdown # "exited"
  /\ Suspend("message_sent", msg, i)
  /\ Arrived("message_create", i)
  /\ sigLog' = Append(sigLog, [kind |-> "message_create", fromMe |-> msg.fromMe])
  /\ UNCHANGED <<msgFrame, wsVars, bcastVars, pubLog>>

\* waClient.on("message_create", async (msg) => { if (msg.fromMe) ... })
OnMessageCreate(i, msg) ==
  /\ CanSignal(i)
  /\ shutdown # "exited"
  /\ IF msg.fromMe
       THEN Suspend("message_sent", msg, i)
       ELSE UNCHANGED resolving
  /\ Arrived("message_create", i)
  /\ sigLog' = Append(sigLog, [kind |-> "message_create", fromMe |-> msg.fromMe])
  /\ UNCHANGED <<msgFrame, wsVars, bcastVars, pubLog>>

\* msg.getContact() has settled: contact_name is the contact's name, or
\* stays msg.from when the promise was rejected (the catch is empty); the
\* payload is returned and the callback broadcasts it.
ContactSettled(p, ok) ==
  /\ p \in resolving
  /\ shutdown # "exited"
  /\ resolving' = resolving \ {p}
  /\ LET payload ==
           buildMessagePayload(p.msg, IF ok THEN <<"pushname">> ELSE p.msg.from)
     IN /\ broadcast(Frame(p.event, payload, p.sig, p.client))
        /\ pubLog' = Append(pubLog, [event |-> p.event, sig |-> p.sig,
                                     data |-> payload])
  /\ UNCHANGED <<msgFrame, histVars, sigLog>>

\* waClient.on("message_ack", (msg, ack) => { ... })
OnMessageAck(i, msg, ack) ==
  /\ CanSignal(i)
  /\ shutdown # "exited"
  /\ LET data == [message_id |-> msg.id, ack |-> ack]
     IN /\ broadcast(Frame("message_ack", data, sigCount + 1, i))
        /\ pubLog' = Append(pubLog, [event |-> "message_ack",
                                     sig |-> sigCount + 1, data |-> data])
  /\ Arrived("message_ack", i)
  /\ sigLog' = Append(sigLog, [kind |-> "message_ack", fromMe |-> msg.fromMe])
  /\ UNCHANGED <<msgFrame, resolving>>

\* waClient.on("change_state", (state) => { ... })
OnChangeState(i) ==
  /\ CanSignal(i)
  /\ shutdown # "exited"
  /\ broadcast(Frame("state_change", <<"CONNECTED">>, sigCount + 1, i))
  /\ Arrived("change_state", i)
  /\ sigLog' = Append(sigLog, [kind |-> "change_state", fromMe |-> FALSE])
  /\ UNCHANGED <<msgFrame, resolving, pubLog>>

\* -------------------------------------------------------------- shutdown
Editions == {"addon", "standalone"}

\* What the SIGTERM handler leaves alone.
termFrame ==
  <<listening, sessionVars, timers, encoding, wsVars, bcastVars, histVars,
    statusAtConnect, wsHist, reqs, fnArg, fnResult, msgVars, edition>>

\* The connections the HTTP server still holds.
Connected == {c \in Conns : c \in handlers /\ readyState[c] # 3}

\* server.close(() => process.exit(0)) in the add-on edition: the process
\* exits when the server has closed; server.close(); process.exit(0) in the
\* standalone edition: it exits at once.
closeAndExit ==
  shutdown' = IF edition = "addon" THEN "closing" ELSE "exited"

\* The SIGTERM handler going on to close the server without awaiting the
\* promise of destroy().
SigtermNoAwait ==
  /\ shutdown = "running"
  /\ termClient' = waClient
  /\ destroyed' = IF waClient # 0
                    THEN [destroyed EXCEPT ![waClient] = "pending"]
                    ELSE destroyed
  /\ closeAndExit
  /\ UNCHANGED termFrame

\* process.on("SIGTERM", async () => { ... }), to its await: destroy() is
\* called on the instance waClient refers to, if any. (One SIGTERM is
\* delivered.)
Sigterm ==
  /\ shutdown = "running"
  /\ termClient' = waClient
  /\ IF waClient # 0
       THEN /\ destroyed' = [destroyed EXCEPT ![waClient] = "pending"]
            /\ shutdown' = "destroying"
       ELSE /\ closeAndExit
            /\ UNCHANGED destroyed
  /\ UNCHANGED termFrame

\* The promise of destroy() has settled; a rejection is swallowed by
\* .catch(() => {}), and the handler goes on either way.
DestroySettled(ok) ==
  /\ shutdown = "destroying"
  /\ destroyed' = [destroyed EXCEPT ![termClient] =
                     IF ok THEN "resolved" ELSE "rejected"]
  /\ closeAndExit
  /\ UNCHANGED <<termFrame, termClient>>

\* The callback of server.close (add-on edition): the server has stopped
\* and its last connection has ended; process.exit(0).
ServerClosed ==
  /\ shutdown = "closing"
  /\ Connected = {}
  /\ shutdown' = "exited"
  /\ UNCHANGED <<termFrame, destroyed, termClient>>

\* ------------------------------------------------------ request gateway
IsString(v) == v[1] = "string"

\* !v for the values above (no number used here is 0).
Falsy(v) == v[1] = "undefined" \/ (v[1] = "string" /\ v[2] = <<>>)

Digits == {"1", "5"}

\* s.includes(ch)
includes(s, ch) == \E k \in 1..Len(s) : s[k] = ch

IsDigit(ch) == ch \in Digits

\* s.replace(/\D/g, "")
stripNonDigits(s) == SelectSeq(s, IsDigit)

\* chatId appending the suffix to `to` as it is.
chatIdKeepsAll(to) ==
  IF includes(to, "@") THEN to ELSE to \o <<"@", "c", ".", "u", "s">>

\* const chatId = to.includes("@") ? to : `${to.replace(/\D/g, "")}@c.us`
chatId(to) ==
  IF includes(to, "@") THEN to ELSE stripNonDigits(to) \o <<"@", "c", ".", "u", "s">>

\* The Authorization header as a sequence of lexemes: a scheme word, runs of
\* white space (one " " each) and token words; <<>> is the absent header.
RECURSIVE dropSpaces(_)
dropSpaces(h) ==
  IF h # <<>> /\ Head(h) = " " THEN dropSpaces(Tail(h)) ELSE h

\* header.replace(/^Bearer\s+/i, "")
stripBearer(h) ==
  IF Len(h) >= 2 /\ h[1] \in {"Bearer", "bearer"} /\ h[2] = " "
    THEN dropSpaces(Tail(h))
    ELSE h

RECURSIVE dropTrailingSpaces(_)
dropTrailingSpaces(h) ==
  IF h # <<>> /\ h[Len(h)] = " "
    THEN dropTrailingSpaces(SubSeq(h, 1, Len(h) - 1))
    ELSE h

\* String.prototype.trim
trim(h) == dropTrailingSpaces(dropSpaces(h))

\* function auth(req, res, next): next() is reached.
Authorized(header) == trim(stripBearer(header)) = <<API_TOKEN>>

Endpoints == {"status", "qr", "pairing-code", "send", "logout", "chats"}

Headers == {<<>>, <<"Bearer", " ", API_TOKEN>>, <<"Bearer", " ", "wrong">>}

ToValues == {undefined, Str(<<"+", "1", " ", "5">>), Num(<<"1", "5">>)}

PhoneValues == {undefined, Str(<<>>), Str(<<"+", "1", " ", "5">>), Num(<<"1", "5">>)}

TextValues == {undefined, Str(<<"h", "i">>)}

UrlValues == {undefined, Str(<<"u", "r", "l">>)}

Bodies(ep) ==
  CASE ep = "send" ->
         {[to |-> t, message |-> m, media_url |-> u, phone |-> undefined] :
            t \in ToValues, m \in TextValues, u \in UrlValues}
    [] ep = "pairing-code" ->
         {[to |-> undefined, message |-> undefined, media_url |-> undefined,
           phone |-> p] : p \in PhoneValues}
    [] OTHER -> {unread}

\* res.status(code).json(...) / res.send(...), and return.
Respond(rec, code, reply) ==
  [rec EXCEPT !.pc = "done", !.chatId = undefined, !.on = 0,
              !.arg = undefined, !.checked = 0,
              !.res = Append(@, [code |-> code, reply |-> reply])]

\* await waClient.<op>(arg): the call is made on the instance waClient
\* refers to now, and the handler is suspended.
Call(rec, op, arg) ==
  [rec EXCEPT !.pc = "await_" \o op, !.on = waClient, !.arg = arg,
              !.called = Append(@, op), !.checked = 0]

\* await MessageMedia.fromUrl(media_url, ...): no client instance is involved.
CallFromUrl(rec, url) ==
  [rec EXCEPT !.pc = "await_fromUrl", !.on = 0, !.arg = url,
              !.called = Append(@, "fromUrl"), !.checked = waClient]

\* An exception thrown where no try encloses it: the promise of the async
\* handler is rejected and the handler has sent nothing. (What the framework
\* and the runtime make of the rejection is decided outside server.js.)
Escape(rec) ==
  [rec EXCEPT !.pc = "escaped", !.chatId = undefined, !.on = 0,
              !.arg = undefined]

\* A handler resumed after an await: the slot showed its request while it
\* was suspended, and the record of its end keeps the body no longer.
Resumed(rec) == [rec EXCEPT !.body = unread]

\* GET /api/status (info, read off the instance, is left out of the reply)
handleStatus(rec) == Respond(rec, 200, <<"status", clientStatus>>)

\* GET /api/qr looking for a stored image before it looks at the status.
handleQrImageFirst(rec) ==
  IF currentQrDataUrl # null
    THEN Respond(rec, 200, <<"qr_image", currentQrDataUrl>>)
    ELSE IF clientStatus = "READY" \/ clientStatus = "AUTHENTICATED"
      THEN Respond(rec, 200, <<"already_authenticated">>)
      ELSE Respond(rec, 200, <<"waiting", clientStatus>>)

\* GET /api/qr
handleQr(rec) ==
  IF clientStatus = "READY" \/ clientStatus = "AUTHENTICATED"
    THEN Respond(rec, 200, <<"already_authenticated">>)
    ELSE IF currentQrDataUrl = null
      THEN Respond(rec, 200, <<"waiting", clientStatus>>)
      ELSE Respond(rec, 200, <<"qr_image", currentQrDataUrl>>)

\* POST /api/pairing-code, to its await: phone.replace is inside the try, so
\* the TypeError of a phone that is not a string is caught.
handlePairingCode(rec, body) ==
  LET r1 == [rec EXCEPT !.body = body] IN
  IF Falsy(body.phone)
    THEN Respond(r1, 400, <<"phone is required">>)
    ELSE IF ~IsString(body.phone)
      THEN Respond(r1, 500, <<"error", "TypeError">>)
      ELSE Call(r1, "requestPairingCode", Str(stripNonDigits(body.phone[2])))

\* The send handler validating the body before it tests the status.
handleSendValidatesFirst(rec, body) ==
  LET r1 == [rec EXCEPT !.body = body]
      r2 == [r1 EXCEPT !.chatId = Str(chatId(body.to[2]))]
  IN
  IF Falsy(body.to)
    THEN Respond(r1, 400, <<"'to' is required">>)
    ELSE IF clientStatus # "READY"
      THEN Respond(rec, 503, <<"WhatsApp not ready">>)
      ELSE IF ~IsString(body.to)
        THEN Escape(r1)
        ELSE IF ~Falsy(body.media_url)
          THEN CallFromUrl(r2, body.media_url)
          ELSE IF Falsy(body.message)
            THEN Respond(r2, 400, <<"'message' is required">>)
            ELSE Call(r2, "sendMessage", r2.chatId)

\* POST /api/send, to its first await: the status is tested before req.body
\* is read; chatId is computed before the try, so the TypeError of a `to`
\* that is not a string is not caught.
handleSend(rec, body) ==
  LET r1 == [rec EXCEPT !.body = body]
      r2 == [r1 EXCEPT !.chatId = Str(chatId(body.to[2]))]
  IN
  IF clientStatus # "READY"
    THEN Respond(rec, 503, <<"WhatsApp not ready">>)
    ELSE IF Falsy(body.to)
      THEN Respond(r1, 400, <<"'to' is required">>)
      ELSE IF ~IsString(body.to)
        THEN Escape(r1)
        ELSE IF ~Falsy(body.media_url)
          THEN CallFromUrl(r2, body.media_url)
          ELSE IF Falsy(body.message)
            THEN Respond(r2, 400, <<"'message' is required">>)
            ELSE Call(r2, "sendMessage", r2.chatId)

\* POST /api/logout, to its await.
handleLogout(rec) == Call(rec, "logout", undefined)

\* GET /api/chats, to its await.
handleChats(rec) ==
  IF clientStatus # "READY"
    THEN Respond(rec, 503, <<"Not ready">>)
    ELSE Call(rec, "getChats", undefined)

route(ep, rec, body) ==
  CASE ep = "status" -> handleStatus(rec)
    [] ep = "qr" -> handleQr(rec)
    [] ep = "pairing-code" -> handlePairingCode(rec, body)
    [] ep = "send" -> handleSend(rec, body)
    [] ep = "logout" -> handleLogout(rec)
    [] ep = "chats" -> handleChats(rec)

\* What no route handler writes.
serverVars ==
  <<listening, sessionVars, timers, encoding, wsVars, bcastVars, histVars,
    statusAtConnect, wsHist, fnArg, fnResult, msgVars, termVars>>

\* The request gets as far as reading req.body (its content cannot matter to
\* a handler that returns before).
ReadsBody(ep, header) ==
  /\ Authorized(header)
  /\ \/ ep = "pairing-code"
     \/ ep = "send" /\ clientStatus = "READY"

\* The routes with GET /api/status left without the auth middleware.
RequestStatusOpen(r, ep, header, body) ==
  /\ listening
  /\ reqs[r].pc = "idle"
  /\ \A q \in Reqs : q < r => reqs[q].pc # "idle"
  /\ body \in IF ReadsBody(ep, header) THEN Bodies(ep) ELSE {unread}
  /\ LET rec == [NoRequest EXCEPT !.ep = ep, !.authorized = Authorized(header)] IN
     reqs' = [reqs EXCEPT ![r] =
       IF ~Authorized(header) /\ ep # "status"
         THEN Respond(rec, 401, <<"Unauthorized">>)
         ELSE route(ep, rec, body)]
  /\ UNCHANGED serverVars

\* A request is received (the requests of a run are numbered in order):
\* auth runs, then the route handler to its first await or to its return.
Request(r, ep, header, body) ==
  /\ listening
  /\ reqs[r].pc = "idle"
  /\ \A q \in Reqs : q < r => reqs[q].pc # "idle"
  /\ body \in IF ReadsBody(ep, header) THEN Bodies(ep) ELSE {unread}
  /\ LET rec == [NoRequest EXCEPT !.ep = ep, !.authorized = Authorized(header)] IN
     reqs' = [reqs EXCEPT ![r] =
       IF ~Authorized(header)
         THEN Respond(rec, 401, <<"Unauthorized">>)
         ELSE route(ep, rec, body)]
  /\ UNCHANGED serverVars

\* MessageMedia.fromUrl has settled: the media send goes to the instance
\* waClient refers to now; a rejection is caught.
FromUrlSettled(r, ok) ==
  /\ reqs[r].pc = "await_fromUrl"
  /\ reqs' = [reqs EXCEPT ![r] =
       IF ok THEN Call(@, "sendMessage", @.chatId)
             ELSE Respond(Resumed(@), 500, <<"error", "fromUrl">>)]
  /\ UNCHANGED serverVars

\* The logout handler setting the status itself when logout() resolved.
CallSettledLogoutSetsStatus(r, ok) ==
  /\ reqs[r].pc \in {"await_sendMessage", "await_requestPairingCode",
                     "await_logout", "await_getChats"}
  /\ reqs' = [reqs EXCEPT ![r] =
       IF ok THEN Respond(Resumed(@), 200, <<"result", @.called[Len(@.called)]>>)
             ELSE Respond(Resumed(@), 500, <<"error", @.called[Len(@.called)]>>)]
  /\ clientStatus' =
       IF ok /\ reqs[r].pc = "await_logout" THEN "DISCONNECTED" ELSE clientStatus
  /\ UNCHANGED <<listening, currentQrDataUrl, waClient, created, initState,
                 timers, encoding, wsVars, bcastVars, histVars,
                 statusAtConnect, wsHist, fnArg, fnResult, msgVars, termVars>>

\* The awaited call on the client has settled: the handler answers with the
\* result, or its catch answers 500 with the error's message.
CallSettled(r, ok) ==
  /\ reqs[r].pc \in {"await_sendMessage", "await_requestPairingCode",
                     "await_logout", "await_getChats"}
  /\ reqs' = [reqs EXCEPT ![r] =
       IF ok THEN Respond(Resumed(@), 200, <<"result", @.called[Len(@.called)]>>)
             ELSE Respond(Resumed(@), 500, <<"error", @.called[Len(@.called)]>>)]
  /\ UNCHANGED serverVars

\* ------------------------------------------------------- specifications
Next ==
  \/ Listen
  \/ \E i \in Clients : \E qr \in QrCodes : OnQr(i, qr)
  \/ \E p \in encoding : QrEncoded(p)
  \/ \E i \in Clients : OnAuthenticated(i)
  \/ \E i \in Clients : OnAuthFailure(i)
  \/ \E i \in Clients : OnReady(i)
  \/ \E i \in Clients : OnDisconnected(i)
  \/ TimerFire
  \/ \E i \in Clients : InitFail(i)
  \/ \E c \in Conns : \E token \in Tokens : WsConnection(c, token)
  \/ \E c \in Conns : WsClosing(c)
  \/ \E c \in Conns : WsError(c)
  \/ \E c \in Conns : WsClose(c)

Spec == Init /\ [][Next]_vars

\* The session with the request gateway: the lifecycle callbacks, the
\* reconnect timer and the REST requests.
GatewayNext ==
  \/ Listen
  \/ \E i \in Clients : \E qr \in QrCodes : OnQr(i, qr)
  \/ \E p \in encoding : QrEncoded(p)
  \/ \E i \in Clients : OnAuthenticated(i)
  \/ \E i \in Clients : OnAuthFailure(i)
  \/ \E i \in Clients : OnReady(i)
  \/ \E i \in Clients : OnDisconnected(i)
  \/ TimerFire
  \/ \E i \in Clients : InitFail(i)
  \/ \E r \in Reqs : \E ep \in Endpoints : \E header \in Headers :
       \E body \in Bodies(ep) \cup {unread} : Request(r, ep, header, body)
  \/ \E r \in Reqs : \E ok \in BOOLEAN : FromUrlSettled(r, ok)
  \/ \E r \in Reqs : \E ok \in BOOLEAN : CallSettled(r, ok)

GatewaySpec == Init /\ [][GatewayNext]_vars

\* The message callbacks on their own: the signals here are the message
\* signals of the client, and pubLog shows what they give to broadcast.
MessageNext ==
  \/ Listen
  \/ \E i \in Clients : \E msg \in Messages : OnMessage(i, msg)
  \/ \E i \in Clients : \E msg \in Messages : OnMessageCreate(i, msg)
  \/ \E p \in resolving : \E ok \in BOOLEAN : ContactSettled(p, ok)
  \/ \E i \in Clients : \E msg \in Messages : \E ack \in Acks :
       OnMessageAck(i, msg, ack)
  \/ \E i \in Clients : OnChangeState(i)

MessageSpec == Init /\ [][MessageNext]_vars

\* A pending getContact() promise settles (resolved or rejected), and the
\* suspended callback is resumed.
Settle == \E p \in resolving : \E ok \in BOOLEAN : ContactSettled(p, ok)

FairMessageSpec == MessageSpec /\ WF_vars(Settle)

\* Shutdown, in either edition: the client being replaced by the reconnect
\* timer, the subscribers, and the SIGTERM handler.
TermInit ==
  /\ ServerInit
  /\ edition \in Editions
  /\ fnArg = <<>>
  /\ fnResult = NoResult

TermNext ==
  \/ Listen
  \/ \E i \in Clients : OnDisconnected(i)
  \/ TimerFire
  \/ \E c \in Conns : \E token \in Tokens : WsConnection(c, token)
  \/ \E c \in Conns : WsClosing(c)
  \/ \E c \in Conns : WsError(c)
  \/ \E c \in Conns : WsClose(c)
  \/ Sigterm
  \/ \E ok \in BOOLEAN : DestroySettled(ok)
  \/ ServerClosed

TermSpec == TermInit /\ [][TermNext]_vars

\* The promise of destroy() settles, a socket that is closing gets its
\* close event, and the callback of server.close runs once the server has
\* closed. Nothing makes an open subscriber disconnect.
Teardown == \E ok \in BOOLEAN : DestroySettled(ok)

Closes == \E c \in Conns : readyState[c] = 2 /\ WsClose(c)

FairTermSpec ==
  TermSpec /\ WF_vars(Teardown) /\ WF_vars(Closes) /\ WF_vars(ServerClosed)

\* chatId on its own: every `to` of at most MaxLen characters over digits,
\* '+', space and '@' (a `to` that passed `if (!to)` is not empty).
Alphabet == Digits \cup {"+", " ", "@"}

ToStrings == UNION {[1..n -> Alphabet] : n \in 1..MaxLen}

ChatIdInit ==
  /\ ServerInit
  /\ edition = "addon"
  /\ fnArg \in ToStrings
  /\ fnResult = NoResult

ApplyChatId ==
  /\ fnResult = NoResult
  /\ fnResult' = chatId(fnArg)
  /\ UNCHANGED <<listening, sessionVars, timers, encoding, wsVars, bcastVars,
                 histVars, statusAtConnect, wsHist, reqs, fnArg, msgVars,
                 termVars>>

ChatIdSpec == ChatIdInit /\ [][ApplyChatId]_vars

\* auth on its own: every Authorization header of at most MaxLen lexemes
\* (scheme words, the secret, another token, runs of white space); the
\* empty sequence is the absent header and the empty one (`|| ""`).
Lexemes == {"Bearer", "bearer", "Basic", " ", API_TOKEN, "wrong"}

HeaderShapes == UNION {[1..n -> Lexemes] : n \in 0..MaxLen}

AuthInit ==
  /\ ServerInit
  /\ edition = "addon"
  /\ fnArg \in HeaderShapes
  /\ fnResult = NoResult

\* function auth(req, res, next): 401, or next().
ApplyAuth ==
  /\ fnResult = NoResult
  /\ fnResult' = IF Authorized(fnArg) THEN <<"next">> ELSE <<"401">>
  /\ UNCHANGED <<listening, sessionVars, timers, encoding, wsVars, bcastVars,
                 histVars, statusAtConnect, wsHist, reqs, fnArg, msgVars,
                 termVars>>

AuthSpec == AuthInit /\ [][ApplyAuth]_vars

\* Node runs a due timer callback as long as the process lives.
FairSpec == Spec /\ WF_vars(TimerFire)

TypeOK ==
  /\ listening \in BOOLEAN
  /\ clientStatus \in Statuses
  /\ waClient \in 0..MaxClients
  /\ created \in 0..MaxClients
  /\ timers \in 0..MaxClients
  /\ wsClients \subseteq Conns
  /\ sigCount \in 0..MaxSignals


\* ---------------------------------------------------------------- claims

\* The target status section 4.3's table gives for each lifecycle signal.
Target(kind) ==
  CASE kind = "none" -> "DISCONNECTED"
    [] kind = "construct" -> "INITIALIZING"
    [] kind = "qr" -> "QR_READY"
    [] kind = "authenticated" -> "AUTHENTICATED"
    [] kind = "auth_failure" -> "AUTH_FAILURE"
    [] kind = "ready" -> "READY"
    [] kind = "disconnected" -> "DISCONNECTED"
    [] kind = "init_failed" -> "DISCONNECTED"
    [] kind = "timer" -> "INITIALIZING"

\* C1: after any sequence of lifecycle signals and any interleaving of the
\* asynchronous parts of their handlers, clientStatus is the table's target
\* of the most recently arrived signal.
C1_StatusFollowsLastSignal == clientStatus = Target(lastSignal)

\* C1's case: the image of a qr signal was stored after a later authenticated
\* signal had arrived.
C1_Witness ==
  /\ lastSignal = "authenticated"
  /\ currentQrDataUrl # null
  /\ encoding = {}

\* C2: a connection that presented the token has a status frame as its first
\* frame, carrying clientStatus as it was at the connection, and no other
\* status frame.
C2_FirstFrameIsStatus ==
  \A c \in Conns :
    readyState[c] = OPEN =>
      /\ Len(frames[c]) >= 1
      /\ frames[c][1].event = "status"
      /\ frames[c][1].data = <<statusAtConnect[c]>>
      /\ \A k \in 2..Len(frames[c]) : frames[c][k].event # "status"

\* C2's case: an open subscriber has received broadcast frames after its
\* status frame, and the status has changed since it connected.
C2_Witness ==
  \E c \in Conns :
    /\ readyState[c] = OPEN
    /\ Len(frames[c]) >= 3
    /\ statusAtConnect[c] # clientStatus

\* C3: the reconnect attempts made by timers never outnumber the disconnected
\* signals, and the n-th disconnected signal is followed by the n-th attempt.
C3_OneReconnectPerDisconnect ==
  /\ [](reconnects <= disconnects)
  /\ \A n \in 1..MaxClients : (disconnects >= n) ~> (reconnects >= n)

\* C3's case: two disconnected signals arrived before any timer fired, and
\* both timers have fired since.
C3_Witness ==
  /\ disconnects = 2
  /\ reconnects = 2
  /\ created = 3

\* C4: while the most recent signal is a lifecycle-path error (disconnected or
\* a failed initialize()), a reconnect is pending.
C4_ErrorHasReconnectPending ==
  lastSignal \in {"disconnected", "init_failed"} => timers > 0

\* C5: the stored pairing artifact is non-null only while the status is
\* QR_READY.
C5_ArtifactOnlyWhileQrReady ==
  currentQrDataUrl # null => clientStatus = "QR_READY"

\* C6: the instance whose callback most recently changed the session state or
\* caused a broadcast is the one waClient refers to.
C6_OnlyNewestInstanceActs == listening => lastClient = waClient

C8_QrFrameBeforeAuthenticated ==
  \A c \in Conns :
    \A j, k \in 1..Len(frames[c]) :
      (/\ j < k
       /\ frames[c][j].event = "authenticated"
       /\ frames[c][k].event = "qr"
       /\ frames[c][k].client = frames[c][j].client
       /\ frames[c][k].sig > frames[c][1].sig)
        => frames[c][k].sig > frames[c][j].sig

\* C9: when a qr signal is the latest signal and no encoding is pending, the
\* stored artifact is the image of that latest qr signal.
C9_ArtifactIsLatestQr ==
  (lastSignal = "qr" /\ encoding = {}) => currentQrDataUrl = toDataURL(lastQr)

\* The status a frame tells its receiver.
StatusOfFrame(f) ==
  CASE f.event = "status" -> f.data[1]
    [] f.event = "qr" -> "QR_READY"
    [] f.event = "authenticated" -> "AUTHENTICATED"
    [] f.event = "auth_failure" -> "AUTH_FAILURE"
    [] f.event = "ready" -> "READY"
    [] f.event = "disconnected" -> "DISCONNECTED"

StatusEvents ==
  {"status", "qr", "authenticated", "auth_failure", "ready", "disconnected"}

\* The status a subscriber knows from the last status-bearing frame of log.
KnownStatus(log) ==
  LET idx == {k \in 1..Len(log) : log[k].event \in StatusEvents}
      last == CHOOSE k \in idx : \A m \in idx : m <= k
  IN  StatusOfFrame(log[last])

\* C10: every status change on the lifecycle path is broadcast in the same
\* step, so an open subscriber knows the current status from the last
\* status-bearing frame it received.
C10_SubscriberKnowsStatus ==
  \A c \in Conns :
    (readyState[c] = OPEN /\ c \in wsClients) =>
      KnownStatus(frames[c]) = clientStatus

\* ------------------------------------------------- claims on the gateway
\* The one response a finished request was given.
Code(rec) == rec.res[1].code

Answered(rec, code) == rec.pc = "done" /\ Len(rec.res) = 1 /\ Code(rec) = code

\* C11: an authorized send or chats request received while clientStatus is
\* not READY is answered 503 whatever its body, no call is made for it
\* (sendMessage, fromUrl, getChats), and status, artifact and subscriber set
\* stay as they were.
C11_NotReadyIs503 ==
  [][\A r \in Reqs :
       (/\ reqs[r].pc = "idle" /\ reqs'[r].pc # "idle"
        /\ reqs'[r].ep \in {"send", "chats"}
        /\ reqs'[r].authorized
        /\ clientStatus # "READY")
       => /\ Answered(reqs'[r], 503)
          /\ reqs'[r].called = <<>>
          /\ UNCHANGED <<clientStatus, currentQrDataUrl, wsClients>>]_vars

C11_Witness ==
  \E r \in Reqs :
    /\ reqs[r].ep = "send"
    /\ Answered(reqs[r], 503)
    /\ currentQrDataUrl # null
    /\ clientStatus = "QR_READY"

\* C12: a step of a route handler (any of the six, answering or failing)
\* leaves clientStatus and currentQrDataUrl as they are; in particular the
\* status is what it was when a logout has been answered with success.
C12_GatewayWritesNoSessionState ==
  [][reqs' # reqs => UNCHANGED <<clientStatus, currentQrDataUrl>>]_vars

C12_Witness ==
  \E r \in Reqs :
    /\ reqs[r].ep = "logout"
    /\ Answered(reqs[r], 200)
    /\ clientStatus = "READY"
    /\ lastSignal = "ready"

\* C13: a request whose Authorization header is missing or carries another
\* token is answered 401 by auth, on each of the six routes and in every
\* status: no call is made for it, and status, artifact and subscriber set
\* stay as they were.
C13_UnauthorizedIs401 ==
  [][\A r \in Reqs :
       (reqs[r].pc = "idle" /\ reqs'[r].pc # "idle" /\ ~reqs'[r].authorized)
       => /\ Answered(reqs'[r], 401)
          /\ reqs'[r].called = <<>>
          /\ UNCHANGED <<clientStatus, currentQrDataUrl, wsClients>>]_vars

C13_Witness ==
  \E r \in Reqs :
    /\ reqs[r].ep = "send"
    /\ ~reqs[r].authorized
    /\ Answered(reqs[r], 401)
    /\ clientStatus = "READY"

\* C14: the subscriber set holds only connections that presented the
\* configured token and whose close and error callbacks have not run; a
\* connection that presented another token, or none, was closed with 4001,
\* is not in the set and has been sent no frame.
C14_SubscribersAreAuthenticated ==
  \A c \in Conns :
    /\ c \in wsClients => presented[c] = API_TOKEN /\ c \notin callbacksRun
    /\ presented[c] \notin {"none", API_TOKEN}
         => /\ closeCode[c] = UNAUTHORIZED_CLOSE
            /\ c \notin wsClients
            /\ frames[c] = <<>>

C14_Witness ==
  \E c \in Conns :
    /\ presented[c] = "wrong"
    /\ closeCode[c] = UNAUTHORIZED_CLOSE
    /\ bcasts > 0

\* C15: every authorized request is answered exactly once and no exception
\* leaves its handler, whatever the shape of its body and whatever the
\* client call does: a handler that has ended has returned after one
\* response.
C15_EveryRequestAnswered ==
  \A r \in Reqs :
    reqs[r].authorized
      => /\ reqs[r].pc # "escaped"
         /\ reqs[r].pc = "done" => Len(reqs[r].res) = 1

\* C16: an authorized send received while READY whose body has neither
\* message nor media_url is answered 400, and sendMessage is not called
\* for it.
C16_NoContentIs400 ==
  [][\A r \in Reqs :
       (/\ reqs[r].pc = "idle" /\ reqs'[r].pc # "idle"
        /\ reqs'[r].ep = "send"
        /\ reqs'[r].authorized
        /\ clientStatus = "READY"
        /\ Falsy(reqs'[r].body.message)
        /\ Falsy(reqs'[r].body.media_url))
       => /\ Answered(reqs'[r], 400)
          /\ reqs'[r].called = <<>>]_vars

\* The digits of a string, in order.
RECURSIVE DigitsOf(_)
DigitsOf(str) ==
  IF str = <<>> THEN <<>>
  ELSE IF Head(str) \in {"+", " ", "@"} THEN DigitsOf(Tail(str))
  ELSE <<Head(str)>> \o DigitsOf(Tail(str))

HasAt(str) == "@" \in {str[k] : k \in 1..Len(str)}

\* C17 as stated: the chat id is `to` itself when `to` contains '@', and
\* otherwise `to` followed by "@c.us".
C17_ChatIdAppendsSuffix ==
  fnResult # NoResult
    => fnResult = IF HasAt(fnArg) THEN fnArg
                  ELSE fnArg \o <<"@", "c", ".", "u", "s">>

\* C17: the chat id is a function of `to` only: `to` itself when `to`
\* contains '@', and otherwise the digits of `to` (every other character
\* removed) followed by "@c.us".
C17_ChatIdNormalisesDigits ==
  fnResult # NoResult
    => fnResult = IF HasAt(fnArg) THEN fnArg
                  ELSE DigitsOf(fnArg) \o <<"@", "c", ".", "u", "s">>

C17_Witness ==
  /\ fnArg = <<"+", "1", "5">>
  /\ fnResult = <<"1", "5", "@", "c", ".", "u", "s">>

Reply(rec) == rec.res[1].reply

\* C18: GET /api/qr answers by the status first: already-authenticated
\* when clientStatus is READY or AUTHENTICATED, whether or not an image is
\* stored; otherwise the stored image if there is one, and otherwise a
\* placeholder naming the status. No image is returned while READY or
\* AUTHENTICATED.
C18_QrAnswersByStatusFirst ==
  [][\A r \in Reqs :
       (/\ reqs[r].pc = "idle" /\ reqs'[r].pc # "idle"
        /\ reqs'[r].ep = "qr"
        /\ reqs'[r].authorized)
       => /\ Answered(reqs'[r], 200)
          /\ clientStatus \in {"READY", "AUTHENTICATED"}
               => Reply(reqs'[r]) = <<"already_authenticated">>
          /\ (clientStatus \notin {"READY", "AUTHENTICATED"}
               /\ currentQrDataUrl # null)
               => Reply(reqs'[r]) = <<"qr_image", currentQrDataUrl>>
          /\ (clientStatus \notin {"READY", "AUTHENTICATED"}
               /\ currentQrDataUrl = null)
               => Reply(reqs'[r]) = <<"waiting", clientStatus>>]_vars

C18_Witness ==
  \E r \in Reqs :
    /\ reqs[r].ep = "qr"
    /\ Answered(reqs[r], 200)
    /\ Reply(reqs[r]) = <<"already_authenticated">>
    /\ clientStatus = "READY"
    /\ currentQrDataUrl # null

\* ------------------------------------------ claims on message callbacks
\* The publications made for signal number k, and whether its callback is
\* still suspended.
PublishedFor(k) == {j \in 1..Len(pubLog) : pubLog[j].sig = k}

Pending(k) == \E p \in resolving : p.sig = k

\* The event a signal is to be published as ("none": not published).
EventOf(s) ==
  CASE s.kind = "message" -> "message"
    [] s.kind = "message_create" /\ s.fromMe -> "message_sent"
    [] s.kind = "message_ack" -> "message_ack"
    [] OTHER -> "none"

PublishedRight(k) ==
  LET s == sigLog[k]
      P == PublishedFor(k)
  IN /\ \A j \in P : pubLog[j].event = EventOf(s)
     /\ Cardinality(P) <= 1
     /\ EventOf(s) = "none" => P = {} /\ ~Pending(k)
     /\ EventOf(s) \in {"message", "message_sent"} => (P = {} <=> Pending(k))
     /\ EventOf(s) = "message_ack"
          => /\ Cardinality(P) = 1
             /\ \A j \in P : DOMAIN pubLog[j].data = {"message_id", "ack"}

\* C19: every `message` signal is published as exactly one `message` event
\* and every `message_create` signal with fromMe as exactly one
\* `message_sent` event, once contact resolution has settled either way;
\* a `message_create` signal without fromMe publishes nothing; every
\* `message_ack` signal publishes exactly one `message_ack` event with just
\* message_id and ack.
C19_MessageSignalsPublishedOnce ==
  /\ [](\A k \in 1..Len(sigLog) : PublishedRight(k))
  /\ \A k \in 1..MaxSignals :
       (k <= Len(sigLog) /\ EventOf(sigLog[k]) # "none")
         ~> (k <= Len(sigLog) /\ Cardinality(PublishedFor(k)) = 1)

C19_Witness ==
  /\ \E j \in 1..Len(pubLog) :
       /\ pubLog[j].event = "message"
       /\ pubLog[j].data.contact_name = pubLog[j].data.from
  /\ \E k \in 1..Len(sigLog) :
       sigLog[k].kind = "message_create" /\ ~sigLog[k].fromMe
  /\ resolving = {}

\* ---------------------------------------------------- claims on shutdown
\* C20: once the SIGTERM handler has gone on to close the server, and so
\* before the process exits, destroy() of the instance that was current
\* when SIGTERM arrived has been called and has settled; and when it was
\* rejected the handler has gone on all the same.
C20_ExitAfterTeardown ==
  /\ shutdown \in {"closing", "exited"} /\ termClient # 0
       => destroyed[termClient] \in {"resolved", "rejected"}
  /\ termClient # 0 /\ destroyed[termClient] = "rejected"
       => shutdown \in {"closing", "exited"}

C20_Witness ==
  /\ shutdown = "exited"
  /\ edition = "addon"
  /\ termClient # 0
  /\ destroyed[termClient] = "rejected"
  /\ waClient # termClient

\* ------------------------------------------------- claims on subscribers
\* A step in which the close or the error callback of c runs: the first
\* of its callbacks, or the close callback after the error callback.
Removal(c) ==
  /\ c \in callbacksRun'
  /\ c \notin callbacksRun \/ (readyState[c] = 2 /\ readyState'[c] = 3)

\* C21: a removal leaves the subscriber set without the connection and
\* with every other member, raises nothing, and changes nothing when the
\* connection was removed before (its other callback has run already).
C21_RemovalIsIdempotent ==
  [][\A c \in Conns :
       Removal(c) =>
         /\ wsClients' = wsClients \ {c}
         /\ c \in callbacksRun => wsClients' = wsClients
         /\ raised' = raised]_vars

\* The error callback of c has removed it and its close callback is due.
C21_Witness ==
  \E c \in Conns :
    /\ c \in callbacksRun
    /\ c \in handlers
    /\ readyState[c] = 2
    /\ c \notin wsClients

\* --------------------------------------------- claims on message events
GroupSuffix == <<"@", "g.us">>

\* A published event of a received message, or of a message this session
\* sent.
IsMessageEvent(e) ==
  \/ e.event = "message" /\ ~e.data.from_me
  \/ e.event = "message_sent"

\* C22: every published `message` event of a received message and every
\* `message_sent` event has is_group true exactly when its sender or its
\* recipient identifier ends with "@g.us".
C22_IsGroupIffGroupMessage ==
  \A j \in 1..Len(pubLog) :
    IsMessageEvent(pubLog[j]) =>
      (pubLog[j].data.is_group <=>
         \/ endsWith(pubLog[j].data.from, GroupSuffix)
         \/ endsWith(pubLog[j].data.to, GroupSuffix))

\* ------------------------------------------- claims on the bearer token
\* The header is `Bearer <token>`: the scheme (in either case), white
\* space, and one token word, which is the secret.
BearerSecret(h) ==
  /\ Len(h) >= 3
  /\ h[1] \in {"Bearer", "bearer"}
  /\ h[2] = " "
  /\ trim(Tail(h)) = <<API_TOKEN>>

\* C23: auth lets a request through exactly when its Authorization header
\* is `Bearer <token>` with the configured secret as the token; every other
\* header (absent, another scheme, the bare secret, a wrong token) gets 401.
C23_OnlyBearerSecretAccepted ==
  fnResult # NoResult =>
    /\ fnResult = <<"next">> <=> BearerSecret(fnArg)
    /\ fnResult = <<"401">> <=> ~BearerSecret(fnArg)

\* ------------------------------------------ claims on the reconnect timer
\* C24: in every step in which a reconnect timer fires and runs
\* createClient, clientStatus is DISCONNECTED before the step.
C24_ReconnectOnlyFromDisconnected ==
  [][reconnects' = reconnects + 1 => clientStatus = "DISCONNECTED"]_vars

\* ------------------------------------------------------- claims on send
\* C25: in every step in which a send handler calls sendMessage,
\* clientStatus is READY and the call is made on the instance that
\* waClient referred to when the handler passed its READY test: in the same
\* step for a text send, before the media download for a media send.
C25_SendOnlyWhileReady ==
  [][\A r \in Reqs :
       (reqs[r].pc # "await_sendMessage" /\ reqs'[r].pc = "await_sendMessage")
       => /\ clientStatus = "READY"
          /\ reqs'[r].on =
               IF reqs[r].pc = "await_fromUrl" THEN reqs[r].checked
                                               ELSE waClient]_vars

\* ------------------------------------------------- claims on delivery
\* C26: what an open, registered subscriber has received is its status
\* frame followed by the frames of exactly the broadcast calls made since
\* it registered, one frame for each call, in the order of the calls and
\* up to the latest call: none from before it registered, none twice,
\* none missing. Every subscriber gets the same frame of a call. A
\* connection that is not open (closing, closed, removed or refused) is
\* sent nothing.
C26_ReceivesExactlyBroadcastsSinceRegistered ==
  /\ \A c \in Conns :
       IF c \in wsClients /\ readyState[c] = OPEN
         THEN /\ Len(frames[c]) >= 1
              /\ frames[c][1].event = "status"
              /\ frames[c][1].seq + Len(frames[c]) - 1 = bcasts
              /\ \A k \in 2..Len(frames[c]) :
                   /\ frames[c][k].event # "status"
                   /\ frames[c][k].seq = frames[c][1].seq + k - 1
         ELSE frames[c] = <<>>
  /\ \A c, d \in Conns :
       \A j \in 2..Len(frames[c]) : \A k \in 2..Len(frames[d]) :
         frames[c][j].seq = frames[d][k].seq => frames[c][j] = frames[d][k]
  /\ ~raised

\* A subscriber that registered after a broadcast has received a later one.
C26_Witness ==
  \E c \in Conns :
    /\ c \in wsClients
    /\ readyState[c] = OPEN
    /\ frames[c][1].seq >= 1
    /\ Len(frames[c]) >= 2

\* ------------------------------------------------------- claims on exit
\* C27: once SIGTERM has been handled the process eventually exits, in
\* either edition, whatever subscribers are connected and whatever
\* reconnect timers are pending or fire.
C27_SigtermLeadsToExit == (shutdown # "running") ~> (shutdown = "exited")

====
